---- MODULE Spec2Model ----
(***************************************************************************)
(* Model of the catalog store of src/src/main.rs: struct Bibliotheque      *)
(* (livres: Vec<Livre>, fichier: String) with its JSON persistence.        *)
(*                                                                         *)
(* A Rust String is modelled as a sequence of one-character strings.  The  *)
(* backing file is modelled by `existe` (Path::exists) and `contenu`, the  *)
(* file text as a sequence of JSON tokens; each token is a tuple of        *)
(* strings: <<"p", c>> punctuation, <<"w">> white space, <<"s", ...>> a    *)
(* string literal (escaped characters), <<"n", ...>> a number literal      *)
(* (decimal digits).  The file is assumed readable when it exists.         *)
(***************************************************************************)
EXTENDS Integers, Sequences, FiniteSets, TLC

VARIABLES livres, existe, contenu, op, arg, res, found, chargement, nSaved

vars == <<livres, existe, contenu, op, arg, res, found, chargement, nSaved>>

\* Bounds of the model.
MaxLivres == 3
MaxPartial == 1

\* The decimal digits of u32::MAX, the range of Livre::annee_publication.
U32MaxDigits == <<"4", "2", "9", "4", "9", "6", "7", "2", "9", "5">>

(***************************************************************************)
(* Strings                                                                 *)
(***************************************************************************)
\* char::to_lowercase on the characters used by the model.
LowerChar(c) ==
    CASE c = "A" -> "a"
      [] c = "D" -> "d"
      [] c = "U" -> "u"
      [] c = "N" -> "n"
      [] OTHER -> c

\* str::to_lowercase
to_lowercase(s) == [k \in 1..Len(s) |-> LowerChar(s[k])]

\* str::starts_with at offset p (1-based) of s.
MatchAt(s, pat, p) ==
    /\ p + Len(pat) - 1 <= Len(s)
    /\ \A k \in 1..Len(pat) : s[p + k - 1] = pat[k]

RECURSIVE ContainsFrom(_, _, _)
ContainsFrom(s, pat, p) ==
    IF p + Len(pat) - 1 > Len(s) THEN FALSE
    ELSE IF MatchAt(s, pat, p) THEN TRUE
    ELSE ContainsFrom(s, pat, p + 1)

\* str::contains: left-to-right scan for the pattern.
contains(s, pat) == ContainsFrom(s, pat, 1)

(***************************************************************************)
(* The records used as inputs                                              *)
(***************************************************************************)
Livre(t, a, i, y) == [titre |-> t, auteur |-> a, isbn |-> i, annee_publication |-> y]

\* Two records whose isbn differ only by case; the authors hold the two
\* characters that JSON escapes.
L1 == Livre(<<"D", "u">>, <<"F", "\"">>, <<"A", "1">>, 1965)
L2 == Livre(<<"d", "U", "n">>, <<"\\">>, <<"a", "1">>, 0)

Livres == {L1, L2}

TitreQueries == {<<>>, <<"d", "u">>, <<"N">>}
IsbnQueries == {<<"a", "1">>, <<"A">>}

(***************************************************************************)
(* serde_json: serialisation                                               *)
(***************************************************************************)
P(c) == <<"p", c>>
WS == <<"w">>

\* Decimal digits of a u32, most significant first (itoa).
RECURSIVE Digits(_)
Digits(n) ==
    IF n < 10 THEN <<CASE n = 0 -> "0" [] n = 1 -> "1" [] n = 2 -> "2"
                       [] n = 3 -> "3" [] n = 4 -> "4" [] n = 5 -> "5"
                       [] n = 6 -> "6" [] n = 7 -> "7" [] n = 8 -> "8"
                       [] OTHER -> "9">>
    ELSE Digits(n \div 10) \o Digits(n % 10)

\* Variant: string literals are written without escaping.
Escape_raw(s) == s

\* JSON string escaping: quote and backslash are preceded by a backslash.
RECURSIVE Escape(_)
Escape(s) ==
    IF s = <<>> THEN <<>>
    ELSE (IF Head(s) \in {"\"", "\\"} THEN <<"\\", Head(s)>> ELSE <<Head(s)>>)
         \o Escape(Tail(s))

StrTok(s) == <<"s">> \o Escape(s)
NumTok(n) == <<"n">> \o Digits(n)
Key(name) == <<"s", name>>

\* One Livre, pretty-printed, fields in declaration order.
SerLivre(l) ==
    << P("{"), WS, Key("titre"), P(":"), StrTok(l.titre), P(","),
       WS, Key("auteur"), P(":"), StrTok(l.auteur), P(","),
       WS, Key("isbn"), P(":"), StrTok(l.isbn), P(","),
       WS, Key("annee_publication"), P(":"), NumTok(l.annee_publication),
       WS, P("}") >>

RECURSIVE SerElems(_)
SerElems(ls) ==
    IF Len(ls) = 1 THEN <<WS>> \o SerLivre(ls[1])
    ELSE <<WS>> \o SerLivre(Head(ls)) \o <<P(",")>> \o SerElems(Tail(ls))

\* serde_json::to_string_pretty(&Vec<Livre>)
to_string_pretty(ls) ==
    IF ls = <<>> THEN <<P("["), P("]")>>
    ELSE <<P("[")>> \o SerElems(ls) \o <<WS, P("]")>>

(***************************************************************************)
(* serde_json: deserialisation                                             *)
(***************************************************************************)
Err == [ok |-> FALSE, val |-> <<>>]
Ok(v) == [ok |-> TRUE, val |-> v]

EOF == <<"eof">>
Tok(toks, p) == IF p <= Len(toks) THEN toks[p] ELSE EOF

\* Undo Escape; a backslash must be followed by a quote or a backslash,
\* and a bare quote cannot occur inside a literal.
RECURSIVE Unescape(_)
Unescape(s) ==
    IF s = <<>> THEN Ok(<<>>)
    ELSE IF Head(s) = "\\"
         THEN IF Len(s) >= 2 /\ s[2] \in {"\"", "\\"}
              THEN LET r == Unescape(Tail(Tail(s)))
                   IN IF r.ok THEN Ok(<<s[2]>> \o r.val) ELSE Err
              ELSE Err
    ELSE IF Head(s) = "\"" THEN Err
    ELSE LET r == Unescape(Tail(s))
         IN IF r.ok THEN Ok(<<Head(s)>> \o r.val) ELSE Err

DigitVal(c) ==
    CASE c = "0" -> 0 [] c = "1" -> 1 [] c = "2" -> 2 [] c = "3" -> 3
      [] c = "4" -> 4 [] c = "5" -> 5 [] c = "6" -> 6 [] c = "7" -> 7
      [] c = "8" -> 8 [] OTHER -> 9

RECURSIVE DigitsVal(_, _)
DigitsVal(ds, acc) ==
    IF ds = <<>> THEN acc ELSE DigitsVal(Tail(ds), acc * 10 + DigitVal(Head(ds)))

\* Digit strings of equal length compared as numbers: a > b.
RECURSIVE DigitsGreater(_, _)
DigitsGreater(a, b) ==
    IF a = <<>> THEN FALSE
    ELSE IF DigitVal(Head(a)) # DigitVal(Head(b)) THEN DigitVal(Head(a)) > DigitVal(Head(b))
    ELSE DigitsGreater(Tail(a), Tail(b))

\* A number literal read as u32: no leading zero, and not above u32::MAX
\* (the range test is made on the digits).
ParseU32(tok) ==
    LET ds == Tail(tok)
    IN IF Head(tok) # "n" \/ ds = <<>> \/ Len(ds) > Len(U32MaxDigits) THEN Err
       ELSE IF Len(ds) > 1 /\ ds[1] = "0" THEN Err
       ELSE IF Len(ds) = Len(U32MaxDigits) /\ DigitsGreater(ds, U32MaxDigits) THEN Err
       ELSE Ok(DigitsVal(ds, 0))

ParseString(tok) == IF Head(tok) = "s" THEN Unescape(Tail(tok)) ELSE Err

Champs == <<"titre", "auteur", "isbn", "annee_publication">>

\* The value of a known field; Err when its type is wrong.
ParseChamp(name, tok) ==
    IF name = "annee_publication" THEN ParseU32(tok) ELSE ParseString(tok)

\* Members of an object from position p: key ":" value ("," | "}").
\* seen maps the names of the fields read so far to their values.  A known
\* field given twice is an error, an unknown field is skipped.
RECURSIVE ParseMembers(_, _, _)
ParseMembers(toks, p, seen) ==
    LET k == Tok(toks, p)
        v == Tok(toks, p + 2)
    IN IF Head(k) # "s" \/ Tok(toks, p + 1) # P(":") \/ ~(Head(v) \in {"s", "n"})
       THEN [ok |-> FALSE, val |-> <<>>, next |-> p]
       ELSE LET name == IF Len(k) = 2 THEN k[2] ELSE ""
                known == \E j \in 1..Len(Champs) : Champs[j] = name
                pv == ParseChamp(name, v)
                bad == known /\ (name \in DOMAIN seen \/ ~pv.ok)
                seen2 == IF known /\ ~bad THEN seen @@ (name :> pv.val) ELSE seen
                sep == Tok(toks, p + 3)
            IN IF bad THEN [ok |-> FALSE, val |-> <<>>, next |-> p]
               ELSE IF sep = P(",") THEN ParseMembers(toks, p + 4, seen2)
               ELSE IF sep = P("}")
                    THEN IF \A j \in 1..Len(Champs) : Champs[j] \in DOMAIN seen2
                         THEN [ok |-> TRUE,
                               val |-> Livre(seen2["titre"], seen2["auteur"],
                                             seen2["isbn"], seen2["annee_publication"]),
                               next |-> p + 4]
                         ELSE [ok |-> FALSE, val |-> <<>>, next |-> p]
               ELSE [ok |-> FALSE, val |-> <<>>, next |-> p]

\* <Livre as Deserialize> on the object starting at position p.
ParseLivre(toks, p) ==
    IF Tok(toks, p) # P("{") THEN [ok |-> FALSE, val |-> <<>>, next |-> p]
    ELSE ParseMembers(toks, p + 1, <<>>)

\* Elements of the array from position p, after "[" or ",".
RECURSIVE ParseElems(_, _, _)
ParseElems(toks, p, acc) ==
    LET e == ParseLivre(toks, p)
    IN IF ~e.ok THEN Err
       ELSE IF Tok(toks, e.next) = P(",") THEN ParseElems(toks, e.next + 1, Append(acc, e.val))
       ELSE IF Tok(toks, e.next) = P("]") /\ e.next = Len(toks) THEN Ok(Append(acc, e.val))
       ELSE Err

\* serde_json::from_str::<Vec<Livre>>: white space is skipped between
\* tokens, the whole input must be one array of Livre objects.
from_str(text) ==
    LET toks == SelectSeq(text, LAMBDA t : t # WS)
    IN IF Tok(toks, 1) # P("[") THEN Err
       ELSE IF Tok(toks, 2) = P("]") THEN (IF Len(toks) = 2 THEN Ok(<<>>) ELSE Err)
       ELSE ParseElems(toks, 2, <<>>)

(***************************************************************************)
(* The backing file                                                        *)
(***************************************************************************)
Min(a, b) == IF a < b THEN a ELSE b

\* Outcomes of fs::write(path, text), which is File::create followed by
\* write_all: success; failure of the create, which leaves the file alone;
\* failure of the write after the create truncated the file, which leaves a
\* strict prefix of the text (at most MaxPartial tokens here).
WriteOutcomes(text) ==
    {[ok |-> TRUE, created |-> TRUE, n |-> Len(text)],
     [ok |-> FALSE, created |-> FALSE, n |-> 0]}
    \cup {[ok |-> FALSE, created |-> TRUE, n |-> k] : k \in 0..Min(MaxPartial, Len(text) - 1)}

\* Variant: the text is appended to the file instead of replacing it.
fs_write_append(text, w) ==
    /\ existe' = (existe \/ w.created)
    /\ contenu' = IF w.created THEN contenu \o SubSeq(text, 1, w.n) ELSE contenu

\* The file after fs::write(path, text) with outcome w.
fs_write(text, w) ==
    /\ existe' = (existe \/ w.created)
    /\ contenu' = IF w.created THEN SubSeq(text, 1, w.n) ELSE contenu

\* Variant: the error of sauvegarder_donnees() is dropped instead of returned.
Propager_swallow(ok) == "Ok"

\* The `?` after sauvegarder_donnees(): its error is the caller's result.
Propager(ok) == IF ok THEN "Ok" ELSE "Err"

(***************************************************************************)
(* Bibliotheque                                                            *)
(***************************************************************************)
\* Variant: no is_empty() test before parsing.
charger_donnees_noempty(ex, ct, cur) ==
    IF ~ex THEN Ok(cur)
    ELSE LET r == from_str(ct)
         IN IF r.ok THEN Ok(r.val) ELSE [ok |-> FALSE, val |-> cur]

\* charger_donnees on a store whose livres is cur, the file being (ex, ct):
\* the Result and the value of self.livres afterwards.
charger_donnees(ex, ct, cur) ==
    IF ~ex THEN Ok(cur)
    ELSE IF ct = <<>> THEN Ok(cur)
    ELSE LET r == from_str(ct)
         IN IF r.ok THEN Ok(r.val) ELSE [ok |-> FALSE, val |-> cur]

\* What Bibliotheque::new(fichier) gives on the file (ex, ct): the error of
\* charger_donnees is dropped by unwrap_or_else.
Nouvelle(ex, ct) == charger_donnees(ex, ct, <<>>)

\* Vec::push
push(ls, l) == Append(ls, l)

\* Variant: Vec::swap_remove, the last element takes the place of the removed one.
swap_remove(ls, index) ==
    [j \in 1..(Len(ls) - 1) |-> IF j = index + 1 THEN ls[Len(ls)] ELSE ls[j]]

\* Vec::remove(index), index counted from 0.
remove(ls, index) == SubSeq(ls, 1, index) \o SubSeq(ls, index + 2, Len(ls))

\* Variant: off-by-one guard.
IndexInvalide_strict(ls, index) == index > Len(ls)

\* The guard of retirer_livre.
IndexInvalide(ls, index) == index >= Len(ls)

\* Variant: the query is not lowercased.
rechercher_par_titre_casse(ls, titre) ==
    SelectSeq(ls, LAMBDA livre : contains(to_lowercase(livre.titre), titre))

\* rechercher_par_titre: iter().filter(..).collect()
rechercher_par_titre(ls, titre) ==
    SelectSeq(ls, LAMBDA livre : contains(to_lowercase(livre.titre), to_lowercase(titre)))

\* iter().find(..) from position p on: the first match, as a sequence of
\* length at most one (Option).
RECURSIVE FindFrom(_, _, _)
FindFrom(ls, isbn, p) ==
    IF p > Len(ls) THEN <<>>
    ELSE IF to_lowercase(ls[p].isbn) = to_lowercase(isbn) THEN <<ls[p]>>
    ELSE FindFrom(ls, isbn, p + 1)

\* Variant: the isbn only has to start with the query.
RECURSIVE FindPrefixFrom(_, _, _)
FindPrefixFrom(ls, isbn, p) ==
    IF p > Len(ls) THEN <<>>
    ELSE IF MatchAt(to_lowercase(ls[p].isbn), to_lowercase(isbn), 1) THEN <<ls[p]>>
    ELSE FindPrefixFrom(ls, isbn, p + 1)

rechercher_par_isbn_prefix(ls, isbn) == FindPrefixFrom(ls, isbn, 1)

\* rechercher_par_isbn
rechercher_par_isbn(ls, isbn) == FindFrom(ls, isbn, 1)

(***************************************************************************)
(* State machine                                                           *)
(***************************************************************************)
\* nSaved is a history variable: the length the catalog had at the last
\* sauvegarder_donnees of the current store that returned Ok, NoSave if none.
NoSave == 0 - 1

NoLivre == Livre(<<>>, <<>>, <<>>, 0)
Arg(l, i, q) == [livre |-> l, index |-> i, query |-> q]
NoArg == Arg(NoLivre, 0, <<>>)

\* A hand-written file: compact, fields in another order, one unknown field.
CompactFile ==
    << P("["), P("{"), Key("isbn"), P(":"), StrTok(L2.isbn), P(","),
       Key("pages"), P(":"), NumTok(12), P(","),
       Key("annee_publication"), P(":"), NumTok(L2.annee_publication), P(","),
       Key("auteur"), P(":"), StrTok(L2.auteur), P(","),
       Key("titre"), P(":"), StrTok(L2.titre), P("}"), P("]") >>

\* Files that do not parse as an array of Livre.
MalformedFiles ==
    { <<WS>>,
      <<P("{"), P("}")>>,
      <<P("["), P("{"), Key("titre"), P(":"), StrTok(L1.titre), P("}"), P("]")>> }

\* The files the program may find at its path when it starts.
InitFiles ==
    {[existe |-> FALSE, contenu |-> <<>>]}
    \cup {[existe |-> TRUE, contenu |-> c] :
            c \in {<<>>, to_string_pretty(<<>>), to_string_pretty(<<L1>>),
                   to_string_pretty(<<L2, L1>>), CompactFile} \cup MalformedFiles}

Init ==
    \E f \in InitFiles :
        /\ existe = f.existe
        /\ contenu = f.contenu
        /\ livres = Nouvelle(f.existe, f.contenu).val
        /\ chargement = Propager(Nouvelle(f.existe, f.contenu).ok)
        /\ op = "new"
        /\ arg = NoArg
        /\ res = "Ok"
        /\ found = <<>>
        /\ nSaved = NoSave

\* Bibliotheque::new on the same path: a new store replaces the old one.
new ==
    /\ livres' = Nouvelle(existe, contenu).val
    /\ chargement' = Propager(Nouvelle(existe, contenu).ok)
    /\ op' = "new"
    /\ arg' = NoArg
    /\ res' = "Ok"
    /\ found' = <<>>
    /\ nSaved' = NoSave
    /\ UNCHANGED <<existe, contenu>>

\* sauvegarder_donnees of the catalog ls, then the `?` of its caller.
sauvegarder_donnees(ls) ==
    LET texte == to_string_pretty(ls)
    IN \E w \in WriteOutcomes(texte) :
          /\ fs_write(texte, w)
          /\ res' = Propager(w.ok)
          /\ nSaved' = IF w.ok THEN Len(ls) ELSE nSaved

ajouter_livre(livre) ==
    /\ Len(livres) < MaxLivres
    /\ livres' = push(livres, livre)
    /\ sauvegarder_donnees(livres')
    /\ op' = "ajouter_livre"
    /\ arg' = Arg(livre, 0, <<>>)
    /\ found' = <<>>
    /\ UNCHANGED chargement

retirer_livre(index) ==
    /\ op' = "retirer_livre"
    /\ arg' = Arg(NoLivre, index, <<>>)
    /\ found' = <<>>
    /\ IF IndexInvalide(livres, index)
       THEN /\ res' = "Index invalide"
            /\ UNCHANGED <<livres, existe, contenu, nSaved>>
       ELSE /\ livres' = remove(livres, index)
            /\ sauvegarder_donnees(livres')
    /\ UNCHANGED chargement

RechercheTitre(titre) ==
    /\ found' = rechercher_par_titre(livres, titre)
    /\ op' = "rechercher_par_titre"
    /\ arg' = Arg(NoLivre, 0, titre)
    /\ res' = "Ok"
    /\ UNCHANGED <<livres, existe, contenu, chargement, nSaved>>

RechercheIsbn(isbn) ==
    /\ found' = rechercher_par_isbn(livres, isbn)
    /\ op' = "rechercher_par_isbn"
    /\ arg' = Arg(NoLivre, 0, isbn)
    /\ res' = "Ok"
    /\ UNCHANGED <<livres, existe, contenu, chargement, nSaved>>

\* The list tab reads self.bibliotheque.livres in order.
Lister ==
    /\ found' = livres
    /\ op' = "lister"
    /\ arg' = NoArg
    /\ res' = "Ok"
    /\ UNCHANGED <<livres, existe, contenu, chargement, nSaved>>

Ajout == \E livre \in Livres : ajouter_livre(livre)
Retrait == \E index \in 0..MaxLivres : retirer_livre(index)
ParTitre == \E titre \in TitreQueries : RechercheTitre(titre)
ParIsbn == \E isbn \in IsbnQueries : RechercheIsbn(isbn)

Next == new \/ Ajout \/ Retrait \/ ParTitre \/ ParIsbn \/ Lister

Spec == Init /\ [][Next]_vars

\* The same program when no record is ever removed.
NextAjouts == new \/ Ajout \/ ParTitre \/ ParIsbn \/ Lister

SpecAjouts == Init /\ [][NextAjouts]_vars

(***************************************************************************)
(* Properties                                                              *)
(***************************************************************************)
Mutation == {"ajouter_livre", "retirer_livre"}
Lecture == {"rechercher_par_titre", "rechercher_par_isbn", "lister"}

\* Two characters equal up to case, stated on the pairs of the alphabet.
Casse == {<<"A", "a">>, <<"D", "d">>, <<"U", "u">>, <<"N", "n">>}
MemeLettre(a, b) == a = b \/ <<a, b>> \in Casse \/ <<b, a>> \in Casse

\* s is a strict prefix of t.
PrefixeStrict(s, t) == Len(s) < Len(t) /\ s = SubSeq(t, 1, Len(s))

\* The file is left exactly as it was.
FichierIntact == existe' = existe /\ contenu' = contenu

\* Element at the 0-based position j.
At(s, j) == s[j + 1]

\* C1: whenever an Add or a RemoveAt has returned success, the file exists
\* and its content decodes to exactly the in-memory sequence of records.
C1_SyncApresSucces ==
    (op \in Mutation /\ res = "Ok") => (existe /\ from_str(contenu) = Ok(livres))

\* A successful Add of a second record to a store constructed on a
\* malformed file: the file now holds both records.
C1_Witness ==
    /\ op = "ajouter_livre" /\ res = "Ok" /\ chargement = "Err"
    /\ Len(livres) = 2 /\ nSaved = 2
    /\ from_str(contenu) = Ok(livres)

\* C2: after Adds only, a new store on the same path holds the catalog the
\* old store had at its last successful Save (its first nSaved records,
\* since records are only appended).
C2_RoundTrip ==
    [][(op' = "new" /\ nSaved # NoSave) => livres' = SubSeq(livres, 1, nSaved)]_vars

\* C3: RemoveAt with index >= length fails with the invalid-index error,
\* leaves the catalog unchanged and does not touch the file.
C3_IndexInvalide ==
    [][(op' = "retirer_livre" /\ arg'.index >= Len(livres))
        => (res' = "Index invalide" /\ livres' = livres /\ FichierIntact)]_vars

\* An invalid-index RemoveAt on an empty catalog whose file does not exist.
C3_Witness ==
    op = "retirer_livre" /\ res = "Index invalide" /\ livres = <<>> /\ ~existe

\* C4: RemoveAt(i) with i < length shortens the catalog by one; positions
\* below i keep their record, each position above i moves down by one.
C4_Retrait ==
    [][(op' = "retirer_livre" /\ arg'.index < Len(livres))
        => LET i == arg'.index
           IN /\ Len(livres') = Len(livres) - 1
              /\ \A j \in 0..(Len(livres) - 1) :
                    /\ j < i => At(livres', j) = At(livres, j)
                    /\ j > i => At(livres', j - 1) = At(livres, j)]_vars

\* The middle one of three records has been removed, leaving two different ones.
C4_Witness ==
    /\ op = "retirer_livre" /\ res # "Index invalide" /\ arg.index = 1
    /\ Len(livres) = 2 /\ livres[1] # livres[2]

C6_Original ==
    [][(~existe /\ existe' /\ res' # "Err") => op' = "ajouter_livre"]_vars

\* C6 (amended): a store constructed where no file exists is empty and the
\* construction creates no file; only an Add or a valid-index RemoveAt
\* brings the file into existence (searches, lists and invalid-index
\* RemoveAt never do), and the file exists after any of those two that
\* returns success.
C6_FichierAbsent ==
    /\ []((op = "new" /\ ~existe) => livres = <<>>)
    /\ [][/\ (op' = "new" /\ ~existe) => ~existe'
          /\ (~existe /\ existe') =>
                \/ op' = "ajouter_livre"
                \/ op' = "retirer_livre" /\ arg'.index < Len(livres)
          /\ (~existe /\ op' \in Mutation /\ res' = "Ok") => existe']_vars

\* The file is still absent after a failed Add (the catalog is not empty)
\* and a listing of the in-memory catalog.
C6_Witness ==
    ~existe /\ op = "lister" /\ found = livres /\ livres # <<>>

\* C7: Load fails on an existing, non-empty file that does not parse and
\* succeeds on a missing or empty one; Construct always succeeds, gives an
\* empty catalog in these three cases and leaves the file as it was.
C7_Chargement ==
    /\ [](op = "new" =>
            /\ res = "Ok"
            /\ (~existe \/ contenu = <<>>) => (chargement = "Ok" /\ livres = <<>>)
            /\ (existe /\ contenu # <<>> /\ ~from_str(contenu).ok)
                  => (chargement = "Err" /\ livres = <<>>)
            /\ (existe /\ contenu \in MalformedFiles) => chargement = "Err")
    /\ [][op' = "new" => FichierIntact]_vars

\* A store constructed on a file that a failed write left with an opening
\* bracket only.
C7_Witness ==
    /\ op = "new" /\ existe /\ contenu = <<P("[")>>
    /\ chargement = "Err" /\ livres = <<>>

\* The title of l contains q, case-insensitively.
TitreContient(l, q) ==
    \E p \in 0..Len(l.titre) :
        /\ p + Len(q) <= Len(l.titre)
        /\ \A k \in 1..Len(q) : MemeLettre(l.titre[p + k], q[k])

\* The k-th smallest element of a set of positions.
Kieme(S, k) == CHOOSE j \in S : Cardinality({i \in S : i < j}) = k - 1

\* C8: SearchByTitle returns exactly the records whose title contains the
\* query case-insensitively, in catalog order, duplicates kept; the empty
\* query returns the whole catalog; catalog and file are unchanged.
C8_ParTitre ==
    [][op' = "rechercher_par_titre"
        => LET q == arg'.query
               M == {j \in 1..Len(livres) : TitreContient(livres[j], q)}
           IN /\ Len(found') = Cardinality(M)
              /\ \A k \in 1..Len(found') : found'[k] = livres[Kieme(M, k)]
              /\ q = <<>> => found' = livres
              /\ livres' = livres
              /\ FichierIntact]_vars

\* The query "N" has selected the two records titled "dUn" around one titled "Du".
C8_Witness ==
    /\ op = "rechercher_par_titre" /\ arg.query = <<"N">>
    /\ livres = <<L2, L1, L2>>
    /\ found = <<L2, L2>>

\* Two isbn equal in full, case-insensitively.
IsbnEgal(a, b) == Len(a) = Len(b) /\ \A k \in 1..Len(a) : MemeLettre(a[k], b[k])

\* C9: SearchByIsbn returns the record at the lowest position whose isbn
\* equals the query in full, case-insensitively, and absence (with no
\* failure) when there is none; a proper prefix does not match.
C9_ParIsbn ==
    [][op' = "rechercher_par_isbn"
        => LET q == arg'.query
               M == {j \in 1..Len(livres) : IsbnEgal(livres[j].isbn, q)}
           IN /\ res' = "Ok"
              /\ Len(found') <= 1
              /\ M = {} => found' = <<>>
              /\ M # {} => found' = <<livres[Kieme(M, 1)]>>
              /\ livres' = livres
              /\ FichierIntact]_vars

\* The query "a1" has found the record with isbn "A1" that stands before
\* the one with isbn "a1".
C9_Witness ==
    /\ op = "rechercher_par_isbn" /\ arg.query = <<"a", "1">>
    /\ Len(livres) >= 2 /\ livres[1] = L1 /\ livres[2] = L2
    /\ found = <<L1>>

\* C10 (as stated): after a construction on a malformed file the content
\* stays on disk until the first Add whose write succeeds, and that Add
\* leaves a file holding only the newly added record; stated for the calls
\* that report no write failure.
C10_Original ==
    [][(chargement = "Err" /\ nSaved = NoSave /\ op' # "new" /\ res' # "Err")
        => IF op' = "ajouter_livre"
           THEN existe' /\ from_str(contenu') = Ok(<<arg'.livre>>)
           ELSE FichierIntact]_vars

\* C10 (amended): after a construction on a malformed file and before any
\* successful Save, searches, lists and invalid-index RemoveAt leave the
\* file as it is; a failed Save leaves it as it is or with a strict prefix of
\* the new text; the first Add or valid-index RemoveAt whose write succeeds
\* replaces the previous content by the whole in-memory catalog and reports
\* success, and that catalog is the newly added record alone when the
\* in-memory catalog was empty before the Add.
C10_FichierMalforme ==
    [][(chargement = "Err" /\ nSaved = NoSave /\ op' # "new")
        => /\ (op' \in Lecture \/ res' = "Index invalide") => FichierIntact
           /\ res' = "Err" =>
                \/ FichierIntact
                \/ existe' /\ PrefixeStrict(contenu', to_string_pretty(livres'))
           /\ (op' \in Mutation /\ res' = "Ok") =>
                /\ existe' /\ from_str(contenu') = Ok(livres')
                /\ contenu' # contenu
                /\ (op' = "ajouter_livre" /\ livres = <<>>) => livres' = <<arg'.livre>>]_vars

\* A successful Add on a store constructed on a malformed file: the file
\* now holds the one record of the catalog.
C10_Witness ==
    /\ chargement = "Err" /\ nSaved = 1
    /\ op = "ajouter_livre" /\ res = "Ok"
    /\ existe /\ contenu = to_string_pretty(<<arg.livre>>)

====
